---- MODULE Spec2Model ----
(***************************************************************************)
(* Knowledge-graph extraction and Graph RAG: a model of src/graph_rag.py   *)
(* (GraphRAG) and of src/main.py (KnowledgeGraphGenerator).                *)
(*                                                                         *)
(* Strings the code only compares for equality (entity names in the graph  *)
(* operations) are TLA+ strings.  Strings the code looks into (search,     *)
(* the model response) are sequences of characters or lexical units.       *)
(***************************************************************************)
EXTENDS Integers, Sequences, FiniteSets

VARIABLES
    apiKey,     \* whether GEMINI_API_KEY is set in the process environment
    args,       \* the arguments of the current call
    rag,        \* the GraphRAG instance bound by the caller, or NoRag
    ret,        \* outcome of the last call: [op, kind, value, calls]
    session     \* st.session_state: [entities, relationships]; its graph_rag is rag

vars == <<apiKey, args, rag, ret, session>>

\* ------------------------------------------------------------------ bounds

MaxEnt == 3
MaxRel == 3

MaxTravRel == 3

MaxStar == 8

MaxTop == 3

MaxDepth == 2

Names == {"a", "b", "c"}

\* ------------------------------------------------------------ general helpers

Range(s) == {s[i] : i \in 1..Len(s)}

SeqsUpTo(S, n) == UNION {[1..k -> S] : k \in 0..n}

Min(a, b) == IF a < b THEN a ELSE b

Last(s) == s[Len(s)]

Max(a, b) == IF a > b THEN a ELSE b

\* Python's s[:n]; a negative n counts from the end
Take(s, n) ==
    IF n >= 0 THEN SubSeq(s, 1, Min(n, Len(s)))
    ELSE SubSeq(s, 1, Max(0, Len(s) + n))

\* the elements of s at the indices of I from lo to hi, in increasing order
\* (by halves, so that the evaluation nests no deeper than the logarithm of
\* the length)
RECURSIVE SelectAt(_, _, _, _)
SelectAt(s, I, lo, hi) ==
    IF lo > hi THEN <<>>
    ELSE IF lo = hi THEN (IF lo \in I THEN <<s[lo]>> ELSE <<>>)
    ELSE SelectAt(s, I, lo, (lo + hi) \div 2)
            \o SelectAt(s, I, (lo + hi) \div 2 + 1, hi)

\* the elements of s at the indices I, in increasing order
FirstAtIndices(s, I) == SelectAt(s, I, 1, Len(s))

\* [x for x in s[:n] if x in keep]
FilterTo(s, keep, n) == SelectAt(s, {i \in 1..n : s[i] \in keep}, 1, n)

\* [x for x in s if x in keep]
Filter(s, keep) == FilterTo(s, keep, Len(s))

\* ------------------------------------------------------------- data classes

Entity(n, t, d) == [name |-> n, type |-> t, description |-> d]

Relationship(s, t, r, d) ==
    [source |-> s, target |-> t, relation |-> r, description |-> d]

\* {e.name for e in es}
EntityNames(es) == {es[i].name : i \in 1..Len(es)}

NoRag == [none |-> TRUE]

NoRet == [op |-> "none", kind |-> "none", value |-> <<>>, calls |-> 0,
          call |-> <<>>]

\* st.session_state before the first extraction
NoSession == [entities |-> <<>>, relationships |-> <<>>]

\* ------------------------------------------------------------ networkx Graph
\* nodes: the node names in insertion order; attrs: the node attributes;
\* edges: one entry per unordered pair {u, v} (a self loop is {u}).

EmptyGraph == [nodes |-> <<>>, attrs |-> <<>>, edges |-> <<>>]

HasNode(G, n) == n \in Range(G.nodes)

\* the position of x in a sequence that holds it
IndexOf(s, x) == CHOOSE i \in 1..Len(s) : s[i] = x

add_node(G, e) ==
    LET a == [type |-> e.type, description |-> e.description]
    IN  IF HasNode(G, e.name)
        THEN [G EXCEPT !.attrs[IndexOf(G.nodes, e.name)] = a]
        ELSE [G EXCEPT !.nodes = Append(G.nodes, e.name),
                       !.attrs = Append(G.attrs, a)]

EdgeKey(u, v) == {u, v}

HasEdge(G, u, v) == \E i \in 1..Len(G.edges) : G.edges[i].key = EdgeKey(u, v)

\* the position of the edge slot of the pair {u, v}
EdgeIndex(G, u, v) ==
    CHOOSE i \in 1..Len(G.edges) : G.edges[i].key = EdgeKey(u, v)

\* the implicit node creation of Graph.add_edge: a missing endpoint becomes a
\* node without attributes
ImplicitNode(G, n) ==
    IF HasNode(G, n) THEN G
    ELSE [G EXCEPT !.nodes = Append(G.nodes, n),
                   !.attrs = Append(G.attrs, [none |-> TRUE])]

\* mutant: an existing edge keeps its first relation and description
add_edge_keep_first(G, r) ==
    LET d == [key |-> EdgeKey(r.source, r.target),
              relation |-> r.relation, description |-> r.description]
        H == ImplicitNode(ImplicitNode(G, r.source), r.target)
    IN  IF HasEdge(H, r.source, r.target) THEN H
        ELSE [H EXCEPT !.edges = Append(H.edges, d)]

add_edge(G, r) ==
    LET d == [key |-> EdgeKey(r.source, r.target),
              relation |-> r.relation, description |-> r.description]
        H == ImplicitNode(ImplicitNode(G, r.source), r.target)
    IN  IF HasEdge(H, r.source, r.target)
        THEN [H EXCEPT !.edges[EdgeIndex(H, r.source, r.target)] = d]
        ELSE [H EXCEPT !.edges = Append(H.edges, d)]

\* The loops over the lists.  G is the graph before iteration i.  The test
\* Len(G.nodes) < 0 is false; it has G evaluated at every iteration instead
\* of all at once at the end, which keeps the evaluation of long lists flat.
RECURSIVE AddNodes(_, _, _)
AddNodes(G, es, i) ==
    IF i > Len(es) \/ Len(G.nodes) < 0 THEN G
    ELSE AddNodes(add_node(G, es[i]), es, i + 1)

\* mutant: the edge is added without the endpoint test
AddEdgeAlways(G, r) == add_edge(G, r)

AddEdgeIfKnown(G, r) ==
    IF HasNode(G, r.source) /\ HasNode(G, r.target) THEN add_edge(G, r) ELSE G

RECURSIVE AddEdges(_, _, _)
AddEdges(G, rs, i) ==
    IF i > Len(rs) \/ Len(G.nodes) < 0 THEN G
    ELSE AddEdges(AddEdgeIfKnown(G, rs[i]), rs, i + 1)

build_networkx_graph(es, rs) == AddEdges(AddNodes(EmptyGraph, es, 1), rs, 1)

NumberOfNodes(G) == Len(G.nodes)

NumberOfEdges(G) == Len(G.edges)

Neighbors(G, n) == {m \in Range(G.nodes) : HasEdge(G, n, m)}

\* ------------------------------------------------- networkx graph algorithms
\* An outcome of a call is [kind |-> "return", value |-> v] or
\* [kind |-> "raise", value |-> <exception class>, raised |-> TRUE].

Ok(v) == [kind |-> "return", value |-> v]

Exc(e) == [kind |-> "raise", value |-> e, raised |-> TRUE]

\* Breadth-first search keeping the paths: `paths` are the shortest paths from
\* the source to the nodes of the current level, `seen` the nodes of the
\* levels so far.  The result is the set of shortest paths to `target`.
RECURSIVE BfsPaths(_, _, _, _)
BfsPaths(G, paths, seen, target) ==
    LET hit == {p \in paths : Last(p) = target}
        nxt == {Append(p, n) : p \in paths, n \in Range(G.nodes)}
        ext == {p \in nxt : /\ HasEdge(G, p[Len(p) - 1], Last(p))
                            /\ Last(p) \notin seen}
    IN  IF hit # {} THEN hit
        ELSE IF ext = {} THEN {}
        ELSE BfsPaths(G, ext, seen \cup {Last(p) : p \in ext}, target)

\* nx.shortest_path(G, source, target): the possible outcomes.  Which of
\* several shortest paths is returned depends on the adjacency order.
nx_shortest_path(G, source, target) ==
    IF ~HasNode(G, source) \/ ~HasNode(G, target) THEN {Exc("NodeNotFound")}
    ELSE LET ps == BfsPaths(G, {<<source>>}, {source}, target)
         IN  IF ps = {} THEN {Exc("NetworkXNoPath")} ELSE {Ok(p) : p \in ps}

\* mutant: the density of a directed graph, m / (n (n - 1))
nx_density_directed(G) ==
    LET n == NumberOfNodes(G)
        m == NumberOfEdges(G)
    IN  IF m = 0 \/ n <= 1 THEN <<0, 1>> ELSE <<m, n * (n - 1)>>

\* nx.density(G) as the fraction <<numerator, denominator>>
nx_density(G) ==
    LET n == NumberOfNodes(G)
        m == NumberOfEdges(G)
    IN  IF m = 0 \/ n <= 1 THEN <<0, 1>> ELSE <<2 * m, n * (n - 1)>>

\* ------------------------------------------------------ Python float (double)
\* A positive double is [hi, lo, exp]: the 53-bit significand hi * 2^27 + lo,
\* 2^25 <= hi < 2^26, 0 <= lo < 2^27, times 2^exp.  Zero is ZeroFloat.  The
\* operations round to nearest, ties to even, as the hardware does; they cover
\* the integers up to 15, which keeps every intermediate below 2^31.

LimbSize == 2 ^ 27

ZeroFloat == [hi |-> 0, lo |-> 0, exp |-> 0]

\* the number of binary digits of x, 0 <= x < 2^30
BitLength(x) == CHOOSE b \in 0..30 : x < 2 ^ b /\ (b = 0 \/ 2 ^ (b - 1) <= x)

\* the significand after the carry of a rounding step
Carried(hi, lo, exp) ==
    IF lo < LimbSize THEN [hi |-> hi, lo |-> lo, exp |-> exp]
    ELSE IF hi + 1 < 2 ^ 26 THEN [hi |-> hi + 1, lo |-> 0, exp |-> exp]
    ELSE [hi |-> 2 ^ 25, lo |-> 0, exp |-> exp + 1]

\* the t low digits of hi * 2^27 + lo are dropped and the rest is rounded
Rounded(hi, lo, exp, t) ==
    IF t = 0 THEN [hi |-> hi, lo |-> lo, exp |-> exp]
    ELSE IF (lo % (2 ^ t)) > 2 ^ (t - 1)
            \/ ((lo % (2 ^ t)) = 2 ^ (t - 1) /\ ((lo \div (2 ^ t)) % 2) = 1)
    THEN Carried(hi \div (2 ^ t),
                 (hi % (2 ^ t)) * (2 ^ (27 - t)) + (lo \div (2 ^ t)) + 1, exp + t)
    ELSE Carried(hi \div (2 ^ t),
                 (hi % (2 ^ t)) * (2 ^ (27 - t)) + (lo \div (2 ^ t)), exp + t)

\* the double nearest to (hi * 2^27 + lo) * 2^exp, 2^25 <= hi < 2^30
Normalized(hi, lo, exp) == Rounded(hi, lo, exp, BitLength(hi) - 26)

\* f * k for a double f and an integer k in 0..15
FloatTimesInt(f, k) ==
    IF f = ZeroFloat \/ k = 0 THEN ZeroFloat
    ELSE Normalized(k * f.hi + ((k * f.lo) \div LimbSize),
                    (k * f.lo) % LimbSize, f.exp)

\* the quotient 2^(52 + k) / m by long division, rounded; r1 is the remainder
\* of the high part
ReciprocalFrom(m, k, hi, r1) ==
    IF 2 * ((r1 * LimbSize) % m) > m
    THEN Carried(hi, ((r1 * LimbSize) \div m) + 1, 0 - (52 + k))
    ELSE Carried(hi, (r1 * LimbSize) \div m, 0 - (52 + k))

ReciprocalScaled(m, k) ==
    ReciprocalFrom(m, k, (2 ^ (25 + k)) \div m, (2 ^ (25 + k)) % m)

\* 1.0 / m for an integer m in 1..15
FloatReciprocal(m) == ReciprocalScaled(m, BitLength(m - 1))

\* a < b for doubles a, b >= 0
FloatLess(a, b) ==
    IF b = ZeroFloat THEN FALSE
    ELSE IF a = ZeroFloat THEN TRUE
    ELSE \/ a.exp < b.exp
         \/ a.exp = b.exp /\ a.hi < b.hi
         \/ a.exp = b.exp /\ a.hi = b.hi /\ a.lo < b.lo

\* int(f) for a double f >= 0 below 2^26
FloatToInt(f) ==
    IF f = ZeroFloat \/ 0 - f.exp - 27 >= 26 THEN 0
    ELSE f.hi \div (2 ^ (0 - f.exp - 27))

\* ------------------------------------------------------------------ GraphRAG

\* GraphRAG.__init__: the attributes are assigned and the graph is built
\* before the credential is read; without it the constructor raises and the
\* caller gets no instance.
GraphRAG_init(entities, relationships, key) ==
    LET self == [entities |-> entities, relationships |-> relationships,
                 graph |-> build_networkx_graph(entities, relationships)]
    IN  IF ~key THEN Exc("ValueError") ELSE Ok(self)

\* mutant: no membership test before the search
find_path_unguarded(self, start_entity, end_entity) ==
    {IF o = Exc("NetworkXNoPath") THEN Ok(<<>>) ELSE o :
        o \in nx_shortest_path(self.graph, start_entity, end_entity)}

\* GraphRAG.find_path: the possible outcomes
find_path(self, start_entity, end_entity) ==
    IF HasNode(self.graph, start_entity) /\ HasNode(self.graph, end_entity)
    THEN {IF o = Exc("NetworkXNoPath") THEN Ok(<<>>) ELSE o :
             o \in nx_shortest_path(self.graph, start_entity, end_entity)}
    ELSE {Ok(<<>>)}

\* GraphRAG.get_statistics, the graph_density entry
graph_density(self) ==
    IF NumberOfNodes(self.graph) > 0 THEN nx_density(self.graph) ELSE <<0, 1>>


\* None
PyNone == [none |-> TRUE]

\* the edge slots that touch n, in the order of their creation: the order of
\* the adjacency of n
AdjacentEdges(G, n) == Filter(G.edges, {e \in Range(G.edges) : n \in e.key})

\* the endpoint of an edge slot of n that is not n (n itself for a self loop)
OtherEnd(key, n) == IF key = {n} THEN n ELSE CHOOSE m \in key : m # n

\* G.degree(n): the edges at n, a self loop counted twice
Degree(G, n) ==
    Len(AdjacentEdges(G, n)) + (IF HasEdge(G, n, n) THEN 1 ELSE 0)

\* nx.degree_centrality(G): per node, in node order, the degree times
\* 1.0 / (N - 1); 1 for every node when N <= 1
nx_degree_centrality(G) ==
    IF NumberOfNodes(G) <= 1
    THEN [i \in 1..NumberOfNodes(G) |-> FloatReciprocal(1)]
    ELSE [i \in 1..NumberOfNodes(G) |->
            FloatTimesInt(FloatReciprocal(NumberOfNodes(G) - 1),
                          Degree(G, G.nodes[i]))]

\* the place of item i after sorted(..., key=centrality, reverse=True): the
\* sort is stable, equal keys keep their order
SortedPlace(c, i) ==
    1 + Cardinality({j \in 1..Len(c) :
                        FloatLess(c[i], c[j]) \/ (c[j] = c[i] /\ j < i)})

\* the items in sorted order
SortedItems(c) == [p \in 1..Len(c) |-> CHOOSE i \in 1..Len(c) : SortedPlace(c, i) = p]

\* the pairs of the listed items: the name and int(centrality * (N - 1))
Rescaled(G, c, items) ==
    [p \in 1..Len(items) |->
        <<G.nodes[items[p]],
          FloatToInt(FloatTimesInt(c[items[p]], NumberOfNodes(G) - 1))>>]

MostConnected(G, c, top_n) == Rescaled(G, c, Take(SortedItems(c), top_n))

\* GraphRAG.get_most_connected_entities
get_most_connected_entities(self, top_n) ==
    IF NumberOfNodes(self.graph) = 0 THEN <<>>
    ELSE MostConnected(self.graph, nx_degree_centrality(self.graph), top_n)

\* the loop of get_subgraph: `nodes` is subgraph_nodes, `level` current_level,
\* k the iterations left
RECURSIVE Expand(_, _, _, _)
Expand(G, nodes, level, k) ==
    IF k <= 0 THEN nodes
    ELSE Expand(G, nodes \cup UNION {Neighbors(G, n) : n \in level},
                UNION {Neighbors(G, n) : n \in level}, k - 1)

\* mutant: a relationship is kept when one endpoint is in the node set
InducedByOneEnd(self, nodes) ==
    <<Filter(self.entities, {e \in Range(self.entities) : e.name \in nodes}),
      Filter(self.relationships,
             {r \in Range(self.relationships) :
                 r.source \in nodes \/ r.target \in nodes})>>

\* the two list comprehensions of get_subgraph
Induced(self, nodes) ==
    <<Filter(self.entities, {e \in Range(self.entities) : e.name \in nodes}),
      Filter(self.relationships,
             {r \in Range(self.relationships) :
                 r.source \in nodes /\ r.target \in nodes})>>

\* GraphRAG.get_subgraph
get_subgraph(self, center_entity, depth) ==
    IF ~HasNode(self.graph, center_entity) THEN <<<<>>, <<>>>>
    ELSE Induced(self, Expand(self.graph, {center_entity}, {center_entity}, depth))

\* mutant: the connections carry the neighbour only
ConnectionsUnlabelled(G, entity_name, adj) ==
    [i \in 1..Len(adj) |->
        [entity |-> OtherEnd(adj[i].key, entity_name),
         relation |-> "", description |-> ""]]

\* the connections of get_entity_info: one per neighbour, in adjacency order
Connections(G, entity_name, adj) ==
    [i \in 1..Len(adj) |->
        [entity |-> OtherEnd(adj[i].key, entity_name),
         relation |-> adj[i].relation,
         description |-> adj[i].description]]

\* GraphRAG.get_entity_info: the first entity of that name, or None
get_entity_info(self, entity_name) ==
    IF entity_name \notin EntityNames(self.entities) THEN PyNone
    ELSE [entity |-> self.entities[CHOOSE i \in 1..Len(self.entities) :
                                      /\ self.entities[i].name = entity_name
                                      /\ \A j \in 1..(i - 1) :
                                            self.entities[j].name # entity_name],
          connections |->
              IF HasNode(self.graph, entity_name)
              THEN Connections(self.graph, entity_name,
                               AdjacentEdges(self.graph, entity_name))
              ELSE <<>>]

\* ------------------------------------------------------------ Python strings
\* A string the code looks into is a sequence of characters.

LowerChar(c) ==
    CASE c = "A" -> "a" [] c = "B" -> "b" [] c = "X" -> "x" [] OTHER -> c

\* str.lower()
Lower(s) == [i \in 1..Len(s) |-> LowerChar(s[i])]

\* q in s
IsSubstring(q, s) ==
    \E i \in 0..(Len(s) - Len(q)) : SubSeq(s, i + 1, i + Len(q)) = q

\* ----------------------------------------------- GraphRAG: the query context

RelLimit == 20

DefaultMaxEntities == 10

\* mutant: the comparison without lower()
MatchesCaseSensitive(e, query) ==
    \/ IsSubstring(query, e.name)
    \/ IsSubstring(query, e.description)
    \/ IsSubstring(query, e.type)

\* the test of GraphRAG.search_entities
Matches(e, query) ==
    LET query_lower == Lower(query)
    IN  \/ IsSubstring(query_lower, Lower(e.name))
        \/ IsSubstring(query_lower, Lower(e.description))
        \/ IsSubstring(query_lower, Lower(e.type))

\* GraphRAG.search_entities
search_entities(self, query) ==
    Filter(self.entities, {e \in Range(self.entities) : Matches(e, query)})

\* the entities get_graph_context selects
relevant_entities(self, query, max_entities) ==
    LET found == Take(search_entities(self, query), max_entities)
    IN  IF found = <<>> THEN Take(self.entities, max_entities) ELSE found

\* mutant: the relationship lines without the limit
relevant_relationships_unlimited(self, selected) ==
    LET entity_names == EntityNames(selected)
    IN  Filter(self.relationships,
               {r \in Range(self.relationships) :
                   r.source \in entity_names \/ r.target \in entity_names})

\* the relationships get_graph_context emits
relevant_relationships(self, selected) ==
    LET entity_names == EntityNames(selected)
    IN  Take(Filter(self.relationships,
                    {r \in Range(self.relationships) :
                        r.source \in entity_names \/ r.target \in entity_names}),
             RelLimit)

\* "- {name} ({type}): {description}"
EntityLine(e) ==
    [name |-> e.name, type |-> e.type, description |-> e.description]

\* "- {source} --[{relation}]--> {target}"
RelationshipLine(r) ==
    [source |-> r.source, relation |-> r.relation, target |-> r.target]

\* GraphRAG.get_graph_context: the lines of the two sections, under their
\* headers
get_graph_context(self, query, max_entities) ==
    LET selected == relevant_entities(self, query, max_entities)
        rels     == relevant_relationships(self, selected)
    IN  [header |-> "Knowledge Graph Information:",
         entities |-> [i \in 1..Len(selected) |-> EntityLine(selected[i])],
         relationships |-> [i \in 1..Len(rels) |-> RelationshipLine(rels[i])]]

ErrorPrefix == "Error querying the knowledge graph: "

\* mutant: no except clause around the invocation
query_graph_no_except(self, user_query, adapter) ==
    LET prompt == [context |-> get_graph_context(self, user_query, DefaultMaxEntities),
                   question |-> user_query]
    IN  [kind |-> adapter.kind, value |-> adapter.value, calls |-> 1,
         prompt |-> prompt]

\* GraphRAG.query_graph; `adapter` is the outcome of
\* self.model.generate_content(prompt).text
query_graph(self, user_query, adapter) ==
    LET prompt == [context |-> get_graph_context(self, user_query, DefaultMaxEntities),
                   question |-> user_query]
    IN  [kind |-> "return",
         value |-> IF adapter.kind = "return" THEN adapter.value
                   ELSE <<ErrorPrefix, adapter.value>>,
         calls |-> 1, prompt |-> prompt]

\* ------------------------------------------------------- the model response
\* The text of a response is a sequence of units: each punctuation character
\* of JSON, the quote, the white space characters and the code fences are
\* units of their own, and a run of other characters (a word) is one unit.

QUOTE == "\""

NL == "<newline>"

\* a backslash, and the escape sequences of a JSON string: for the quote,
\* the backslash, the line feed and a character outside ASCII
BACKSLASH == "\\"

ESCQUOTE == "\\\""

ESCBACK == "\\\\"

ESCNL == "\\n"

EACUTE == "<e-acute>"

ESCU == "\\u00e9"

\* the code fence, three backquotes
FENCE == "<fence>"

\* the code fence followed by json
FENCEJSON == "<fence>json"

WhiteSpace == {" ", NL}

\* the values JSON writes without quotes
Literals == {"null", "7"}

\* s.count(c)
Count(s, c) == Cardinality({i \in 1..Len(s) : s[i] = c})

\* s.find(c): the first place of c in s, 0 when there is none (-1 in Python)
Find(s, c) ==
    LET I == {i \in 1..Len(s) : s[i] = c}
    IN  IF I = {} THEN 0 ELSE CHOOSE i \in I : \A j \in I : i <= j

\* s.rfind(c): the last place of c in s, 0 when there is none (-1 in Python)
RFind(s, c) ==
    LET I == {i \in 1..Len(s) : s[i] = c}
    IN  IF I = {} THEN 0 ELSE CHOOSE i \in I : \A j \in I : i >= j

\* s.replace(u, '') for each unit u of `drop`
Without(s, drop) == Filter(s, Range(s) \ drop)

\* s.strip()
Strip(s) ==
    LET I == {i \in 1..Len(s) : s[i] \notin WhiteSpace}
    IN  IF I = {} THEN <<>>
        ELSE SubSeq(s, CHOOSE i \in I : \A j \in I : i <= j,
                       CHOOSE i \in I : \A j \in I : i >= j)

\* s.replace('\n', ' ').replace('\r', ' ')
NewlinesToSpaces(s) ==
    <<>> \o [i \in 1..Len(s) |-> IF s[i] = NL THEN " " ELSE s[i]]

\* ' '.join(s.split()): every run of white space becomes one space, none is
\* left at either end
JoinSplit(s) ==
    LET t == Strip(s)
        keep == {i \in 1..Len(t) :
                    t[i] \notin WhiteSpace \/ t[i - 1] \notin WhiteSpace}
        u == FirstAtIndices(t, keep)
    IN  <<>> \o [i \in 1..Len(u) |-> IF u[i] \in WhiteSpace THEN " " ELSE u[i]]

\* c * n: n copies of c, none when n <= 0
Repeat(c, n) == <<>> \o [i \in 1..n |-> c]

\* mutant: the repair without the test of the last character
RepairedUnguarded(json_text) ==
    json_text \o Repeat("]", Count(json_text, "[") - Count(json_text, "]"))
              \o Repeat("}", Count(json_text, "{") - Count(json_text, "}"))

\* the repair of a text that failed to decode
Repaired(json_text) ==
    IF ~(json_text # <<>> /\ Last(json_text) = "}")
    THEN LET open_braces   == Count(json_text, "{") - Count(json_text, "}")
             open_brackets == Count(json_text, "[") - Count(json_text, "]")
         IN  json_text \o Repeat("]", open_brackets) \o Repeat("}", open_braces)
    ELSE json_text

\* ------------------------------------------------------------- json.loads
\* A decoded value is [t |-> "str", v |-> <the units between the quotes>],
\* [t |-> "lit", v |-> <<literal>>], [t |-> "arr", v |-> <the elements>] or
\* [t |-> "obj", v |-> <the members <<key, value>> in the order read>].
\* A parse step is [ok, val, next]: next is the place after the value.

JStr(units) == [t |-> "str", v |-> units]

JLit(unit) == [t |-> "lit", v |-> <<unit>>]

JArr(elements) == [t |-> "arr", v |-> elements]

JObj(members) == [t |-> "obj", v |-> members]

ParseFail == [ok |-> FALSE, val |-> JLit("none"), next |-> 0]

Parsed(val, next) == [ok |-> TRUE, val |-> val, next |-> next]

\* the first place from i on that holds no white space (Len(s) + 1 at the end)
SkipWs(s, i) ==
    LET I == {j \in i..Len(s) : s[j] \notin WhiteSpace}
    IN  IF i > Len(s) THEN Len(s) + 1
        ELSE IF i >= 1 /\ s[i] \notin WhiteSpace THEN i
        ELSE IF I = {} THEN Len(s) + 1
        ELSE CHOOSE j \in I : \A k \in I : j <= k

At(s, i) == IF i >= 1 /\ i <= Len(s) THEN s[i] ELSE "<end>"

\* the character an escape sequence stands for
Unescape(u) ==
    IF u = ESCQUOTE THEN QUOTE
    ELSE IF u = ESCBACK THEN BACKSLASH
    ELSE IF u = ESCNL THEN NL
    ELSE IF u = ESCU THEN EACUTE
    ELSE u

Unescaped(raw) == <<>> \o [k \in 1..Len(raw) |-> Unescape(raw[k])]

\* a string starts with the quote at place i and ends at the next quote j; a
\* line break inside it is a control character, which strict decoding
\* rejects, as it rejects a backslash that starts no escape sequence
StringTo(s, i, j) ==
    IF Range(SubSeq(s, i + 1, j - 1)) \cap {NL, BACKSLASH} # {} THEN ParseFail
    ELSE Parsed(JStr(Unescaped(SubSeq(s, i + 1, j - 1))), j + 1)

ParseString(s, i) ==
    IF \E j \in (i + 1)..Len(s) : s[j] = QUOTE
    THEN StringTo(s, i, CHOOSE j \in (i + 1)..Len(s) :
                           /\ s[j] = QUOTE
                           /\ \A k \in (i + 1)..(j - 1) : s[k] # QUOTE)
    ELSE ParseFail

RECURSIVE ParseValue(_, _)
RECURSIVE ParseMembers(_, _, _)
RECURSIVE ParseElements(_, _, _)

\* after the members `all`, at place e: the end of the object or a comma and
\* the next member
MembersEnd(s, all, e) ==
    IF At(s, e) = "}" THEN Parsed(JObj(all), e + 1)
    ELSE IF At(s, e) = "," THEN ParseMembers(s, SkipWs(s, e + 1), all)
    ELSE ParseFail

\* the member `key`, whose value was read as `val`
MemberValue(s, acc, key, val) ==
    IF ~val.ok THEN ParseFail
    ELSE MembersEnd(s, Append(acc, <<key.val.v, val.val>>), SkipWs(s, val.next))

\* the colon at place c and the value after it
MemberColon(s, acc, key, c) ==
    IF At(s, c) # ":" THEN ParseFail
    ELSE MemberValue(s, acc, key, ParseValue(s, c + 1))

\* the member whose key was read as `key`
MemberKey(s, acc, key) ==
    IF ~key.ok THEN ParseFail
    ELSE MemberColon(s, acc, key, SkipWs(s, key.next))

\* the members of an object from place i, which holds the quote of a key;
\* `acc` are the members read so far
ParseMembers(s, i, acc) ==
    IF At(s, i) # QUOTE THEN ParseFail
    ELSE MemberKey(s, acc, ParseString(s, i))

\* after the elements `all`, at place e: the end of the array or a comma and
\* the next element
ElementsEnd(s, all, e) ==
    IF At(s, e) = "]" THEN Parsed(JArr(all), e + 1)
    ELSE IF At(s, e) = "," THEN ParseElements(s, SkipWs(s, e + 1), all)
    ELSE ParseFail

\* the element read as `val`
ElementValue(s, acc, val) ==
    IF ~val.ok THEN ParseFail
    ELSE ElementsEnd(s, Append(acc, val.val), SkipWs(s, val.next))

\* the elements of an array from place i, where an element starts
ParseElements(s, i, acc) == ElementValue(s, acc, ParseValue(s, i))

\* the value that starts at place b, which holds no white space; c is the
\* first such place after b
ValueAt(s, b, c) ==
    IF At(s, b) = "{"
    THEN IF At(s, c) = "}" THEN Parsed(JObj(<<>>), c + 1)
         ELSE ParseMembers(s, c, <<>>)
    ELSE IF At(s, b) = "["
    THEN IF At(s, c) = "]" THEN Parsed(JArr(<<>>), c + 1)
         ELSE ParseElements(s, c, <<>>)
    ELSE IF At(s, b) = QUOTE THEN ParseString(s, b)
    ELSE IF At(s, b) \in Literals THEN Parsed(JLit(s[b]), b + 1)
    ELSE ParseFail

ValueFrom(s, b) == ValueAt(s, b, SkipWs(s, b + 1))

\* the value that starts at the first place from i on that is no white space
ParseValue(s, i) == ValueFrom(s, SkipWs(s, i))

\* the document read as `val` must reach the end of the text
WholeText(s, val) ==
    IF val.ok /\ SkipWs(s, val.next) > Len(s) THEN Ok(val.val)
    ELSE Exc("JSONDecodeError")

\* json.loads(s): the value, or JSONDecodeError when s is no JSON document or
\* holds anything after it
json_loads(s) == WholeText(s, ParseValue(s, 1))

\* ------------------------------------------ KnowledgeGraphGenerator: decode

\* d[key] of a decoded object: the value of the last member with that key
GetItem(d, key) ==
    LET I == {i \in 1..Len(d.v) : d.v[i][1] = key}
    IN  IF d.t # "obj" THEN Exc("TypeError")
        ELSE IF I = {} THEN Exc("KeyError")
        ELSE Ok(d.v[CHOOSE i \in I : \A j \in I : i >= j][2])

\* the keys of a decoded object
Keys(d) == {d.v[i][1] : i \in 1..Len(d.v)}

\* `for x in v`: the elements of a list, the characters of a string, the keys
\* of an object; a number or null is not iterable
Iterate(v) ==
    IF v.t = "arr" THEN Ok(v.v)
    ELSE IF v.t = "str" THEN Ok([i \in 1..Len(v.v) |-> JStr(<<v.v[i]>>)])
    ELSE IF v.t = "obj" THEN Ok([i \in 1..Len(v.v) |-> JStr(v.v[i][1])])
    ELSE Exc("TypeError")

\* cls(**d) for a dataclass with the fields `required` and then description,
\* which defaults to the empty string: d must be an object whose keys are
\* fields and include the required ones; the values are taken as they are
FromKeywords(d, required) ==
    IF d.t # "obj" THEN Exc("TypeError")
    ELSE IF ~(Keys(d) \subseteq (required \cup {<<"description">>})) THEN Exc("TypeError")
    ELSE IF ~(required \subseteq Keys(d)) THEN Exc("TypeError")
    ELSE Ok([k \in Keys(d) \cup {<<"description">>} |->
                IF k \in Keys(d) THEN GetItem(d, k).value ELSE JStr(<<>>)])

EntityFields == {<<"name">>, <<"type">>}

RelationshipFields == {<<"source">>, <<"target">>, <<"relation">>}

\* Entity(**d)
EntityFrom(d) ==
    LET f == FromKeywords(d, EntityFields)
    IN  IF f.kind = "raise" THEN f
        ELSE Ok(Entity(f.value[<<"name">>], f.value[<<"type">>],
                       f.value[<<"description">>]))

\* Relationship(**d)
RelationshipFrom(d) ==
    LET f == FromKeywords(d, RelationshipFields)
    IN  IF f.kind = "raise" THEN f
        ELSE Ok(Relationship(f.value[<<"source">>], f.value[<<"target">>],
                             f.value[<<"relation">>], f.value[<<"description">>]))

\* mutant: a comprehension that leaves out the elements Entity(**d) rejects
DecodeEntitiesSkipping(data) ==
    LET item == GetItem(data, <<"entities">>)
        iter == Iterate(item.value)
        made == [i \in 1..Len(iter.value) |-> EntityFrom(iter.value[i])]
    IN  IF item.kind = "raise" THEN item
        ELSE IF iter.kind = "raise" THEN iter
        ELSE Ok(SelectAt([i \in 1..Len(made) |-> made[i].value],
                         {i \in 1..Len(made) : made[i].kind = "return"},
                         1, Len(made)))

\* [Entity(**entity) for entity in data['entities']]
DecodeEntities(data) ==
    LET item == GetItem(data, <<"entities">>)
        iter == Iterate(item.value)
        made == [i \in 1..Len(iter.value) |-> EntityFrom(iter.value[i])]
    IN  IF item.kind = "raise" THEN item
        ELSE IF iter.kind = "raise" THEN iter
        ELSE IF \E i \in 1..Len(made) : made[i].kind = "raise" THEN Exc("TypeError")
        ELSE Ok([i \in 1..Len(made) |-> made[i].value])

\* [Relationship(**rel) for rel in data['relationships']]
DecodeRelationships(data) ==
    LET item == GetItem(data, <<"relationships">>)
        iter == Iterate(item.value)
        made == [i \in 1..Len(iter.value) |-> RelationshipFrom(iter.value[i])]
    IN  IF item.kind = "raise" THEN item
        ELSE IF iter.kind = "raise" THEN iter
        ELSE IF \E i \in 1..Len(made) : made[i].kind = "raise" THEN Exc("TypeError")
        ELSE Ok([i \in 1..Len(made) |-> made[i].value])

\* ----------------------------------------- KnowledgeGraphGenerator: extract

TextBudget == 6000

TextWindow == 3000

TruncationMarker == "[...middle content truncated...]"

\* re.sub(r'\s+', ' ', text): every run of white space becomes one space
CollapseWhiteSpace(s) ==
    LET keep == {i \in 1..Len(s) :
                    s[i] \notin WhiteSpace \/ At(s, i - 1) \notin WhiteSpace}
        u == FirstAtIndices(s, keep)
    IN  <<>> \o [i \in 1..Len(u) |-> IF u[i] \in WhiteSpace THEN " " ELSE u[i]]

\* mutant: a text over the budget is cut to its first TextBudget characters
PromptTextHeadOnly(text) ==
    IF Len(text) > TextBudget THEN SubSeq(text, 1, TextBudget) ELSE text

\* the text as the prompt embeds it, given the preprocessed text
PromptText(text) ==
    IF Len(text) > TextBudget
    THEN SubSeq(text, 1, TextWindow) \o <<NL, NL, TruncationMarker, NL, NL>>
            \o SubSeq(text, Len(text) - TextWindow + 1, Len(text))
    ELSE text

\* The input text is a sequence of characters: "w" and "x" are lower case
\* letters, "7" is a digit, "-" a hyphen.  A citation number in brackets,
\* "[7]", and a year in parentheses, "(1999)", are one unit each: the
\* substitutions that remove them come before any length is taken.

Letters == {"w", "x"}

Digits == {"7"}

WordUnits == Letters \cup Digits

\* the index of the last character at or before i that is not white space,
\* 0 when there is none
RECURSIVE BackWs(_, _)
BackWs(s, i) ==
    IF i = 0 THEN 0
    ELSE IF s[i] \notin WhiteSpace THEN i
    ELSE BackWs(s, i - 1)

\* the index of the first character at or after i that is not white space,
\* Len(s) + 1 when there is none
RECURSIVE AfterWs(_, _)
AfterWs(s, i) ==
    IF i > Len(s) THEN Len(s) + 1
    ELSE IF s[i] \notin WhiteSpace THEN i
    ELSE AfterWs(s, i + 1)

\* the index where the run of digits that ends at i starts
RECURSIVE DigitRunStart(_, _)
DigitRunStart(s, i) ==
    IF At(s, i - 1) \in Digits THEN DigitRunStart(s, i - 1) ELSE i

\* last is the index of the last character that is not white space
PageNumberCut(s, last) ==
    IF /\ last > 0
       /\ s[last] \in Digits
       /\ At(s, DigitRunStart(s, last) - 1) \notin WordUnits
    THEN SubSeq(s, 1, DigitRunStart(s, last) - 1) \o SubSeq(s, last + 1, Len(s))
    ELSE s

\* re.sub(r'\b\d+\b(?=\s*$)', '', text): a number that ends the text, on a
\* word boundary, is a page number.  The text has no line break any more, so
\* $ is the end of the text.
WithoutPageNumber(s) == PageNumberCut(s, BackWs(s, Len(s)))

\* ([a-z])-\s+([a-z]) can match with its hyphen at i
HyphenCandidate(s, i) ==
    /\ At(s, i) = "-"
    /\ At(s, i - 1) \in Letters
    /\ AfterWs(s, i + 1) > i + 1
    /\ At(s, AfterWs(s, i + 1)) \in Letters

\* The matches are found from left to right and do not overlap: the letter
\* that ends one match cannot start the next.  A candidate at i is a match
\* unless its letter, at i - 1, ends the match of the hyphen before it.
RECURSIVE HyphenMatched(_, _)
HyphenMatched(s, i) ==
    /\ HyphenCandidate(s, i)
    /\ ~(/\ BackWs(s, i - 2) < i - 2
         /\ HyphenMatched(s, BackWs(s, i - 2)))

\* re.sub(r'([a-z])-\s+([a-z])', r'\1\2', text): of each match the two
\* letters stay, the hyphen and the white space after it go
WithoutLineBreakHyphens(s) ==
    FirstAtIndices(s, {k \in 1..Len(s) :
                          ~(/\ s[k] \in WhiteSpace \cup {"-"}
                            /\ HyphenMatched(s, BackWs(s, k)))})

\* KnowledgeGraphGenerator.preprocess_academic_text.  The first substitution
\* (blank lines) only rewrites white space that the second one collapses.
preprocess_academic_text(text) ==
    LET collapsed == CollapseWhiteSpace(text)
        unnumbered == WithoutPageNumber(collapsed)
        uncited == Without(Without(unnumbered, {"[7]"}), {"(1999)"})
    IN  WithoutLineBreakHyphens(uncited)

EmptyResult == <<<<>>, <<>>>>

\* an outcome of the body of extract_entities_and_relationships: `calls`
\* counts the invocations of generate_content, `attempts` are the texts
\* handed to json.loads
Outcome(kind, value, calls, attempts) ==
    [kind |-> kind, value |-> value, calls |-> calls, attempts |-> attempts,
     prompt |-> <<>>]

\* The statements inside the try block after the invocation, last first.

\* lines 219-222: both lists decoded, in this order
Decoded(entities, relationships, attempts) ==
    IF entities.kind = "raise"
    THEN Outcome("raise", entities.value, 1, attempts)
    ELSE IF relationships.kind = "raise"
    THEN Outcome("raise", relationships.value, 1, attempts)
    ELSE Outcome("return", <<entities.value, relationships.value>>, 1, attempts)

\* data is the outcome of the last json.loads, attempts the texts decoded
Loaded(data, attempts) ==
    IF data.kind = "raise" THEN Outcome("raise", data.value, 1, attempts)
    ELSE Decoded(DecodeEntities(data.value), DecodeRelationships(data.value),
                 attempts)

\* lines 205-217: the handler of the first JSONDecodeError
Retry(json_text, fixed) == Loaded(json_loads(fixed), <<json_text, fixed>>)

\* lines 203-217: first is the outcome of the first json.loads
FirstLoaded(json_text, first) ==
    IF first.kind = "return" THEN Loaded(first, <<json_text>>)
    ELSE Retry(json_text, Repaired(json_text))

\* lines 203-222
Load(json_text) == FirstLoaded(json_text, json_loads(json_text))

\* lines 188-222: stripped is the response without fences and margins
Sliced(stripped, json_start, json_end) ==
    IF json_start = 0 \/ json_end = 0
    THEN Outcome("return", EmptyResult, 1, <<>>)
    ELSE Load(JoinSplit(NewlinesToSpaces(SubSeq(stripped, json_start, json_end))))

Stripped(stripped) == Sliced(stripped, Find(stripped, "{"), RFind(stripped, "}"))

\* lines 182-222: response is the text of the response
Salvage(response) == Stripped(Strip(Without(response, {FENCEJSON, FENCE})))

\* the try block: the invocation, then the salvage of the response
ExtractBody(adapter) ==
    IF adapter.kind = "raise"
    THEN Outcome("raise", adapter.value, 1, <<>>)
    ELSE Salvage(adapter.value)

\* mutant: only `except json.JSONDecodeError`, no `except Exception`
CatchDecodeErrors(body) ==
    IF body.kind = "raise" /\ body.value = "JSONDecodeError"
    THEN [body EXCEPT !.kind = "return", !.value = EmptyResult]
    ELSE body

extract_only_decode_errors(text, adapter) ==
    CatchDecodeErrors([ExtractBody(adapter) EXCEPT
                          !.prompt = PromptText(preprocess_academic_text(text))])

\* KnowledgeGraphGenerator.extract_entities_and_relationships; `adapter` is
\* the outcome of self.model.generate_content(prompt).text.  Both except
\* clauses return the empty result.
\* lines 224-230: the two except clauses
Catch(body) ==
    IF body.kind = "raise" /\ body.value = "JSONDecodeError"
    THEN [body EXCEPT !.kind = "return", !.value = EmptyResult]
    ELSE IF body.kind = "raise"
    THEN [body EXCEPT !.kind = "return", !.value = EmptyResult]
    ELSE body

extract_entities_and_relationships(text, adapter) ==
    Catch([ExtractBody(adapter) EXCEPT
              !.prompt = PromptText(preprocess_academic_text(text))])

\* -------------------------------------------------------------- json.dumps

\* mutant: strings written as they are
EscapeNothing(u) == u

\* the escape sequence of a character that a JSON string cannot hold as it is
\* (ensure_ascii is on)
Escape(u) ==
    IF u = QUOTE THEN ESCQUOTE
    ELSE IF u = BACKSLASH THEN ESCBACK
    ELSE IF u = NL THEN ESCNL
    ELSE IF u = EACUTE THEN ESCU
    ELSE u

DumpString(units) ==
    <<QUOTE>> \o [k \in 1..Len(units) |-> Escape(units[k])] \o <<QUOTE>>

\* a new line indented for the nesting depth
Indent(depth) == <<NL>> \o Repeat(" ", 2 * depth)

\* json.dumps(v, indent=2) of a value nested `depth` deep
RECURSIVE json_dumps(_, _)
RECURSIVE DumpElements(_, _, _)
RECURSIVE DumpMembers(_, _, _)

\* the elements from the i-th on, each on a line of its own
DumpElements(items, i, depth) ==
    IF i > Len(items) THEN <<>>
    ELSE Indent(depth) \o json_dumps(items[i], depth)
            \o (IF i < Len(items) THEN <<",">> ELSE <<>>)
            \o DumpElements(items, i + 1, depth)

DumpMembers(members, i, depth) ==
    IF i > Len(members) THEN <<>>
    ELSE Indent(depth) \o DumpString(members[i][1]) \o <<":", " ">>
            \o json_dumps(members[i][2], depth)
            \o (IF i < Len(members) THEN <<",">> ELSE <<>>)
            \o DumpMembers(members, i + 1, depth)

json_dumps(v, depth) ==
    IF v.t = "str" THEN DumpString(v.v)
    ELSE IF v.t = "lit" THEN v.v
    ELSE IF v.t = "arr"
    THEN IF v.v = <<>> THEN <<"[", "]">>
         ELSE <<"[">> \o DumpElements(v.v, 1, depth + 1) \o Indent(depth) \o <<"]">>
    ELSE IF v.v = <<>> THEN <<"{", "}">>
         ELSE <<"{">> \o DumpMembers(v.v, 1, depth + 1) \o Indent(depth) \o <<"}">>

\* --------------------------------------------------------- the Streamlit app

\* a value that can be a node of the graph: a list or a dict cannot be hashed
Hashable(v) == v.t \in {"str", "lit"}

\* GraphRAG(entities, relationships) for what extraction returned: add_node
\* raises TypeError for a name that cannot be hashed, and so does the
\* membership test of a source or target
SessionGraphRAG(entities, relationships, key) ==
    IF \/ \E i \in 1..Len(entities) : ~Hashable(entities[i].name)
       \/ \E i \in 1..Len(relationships) :
             ~Hashable(relationships[i].source) \/ ~Hashable(relationships[i].target)
    THEN Exc("TypeError")
    ELSE GraphRAG_init(entities, relationships, key)

\* what the handler of the Generate button leaves: the session, its graph,
\* the environment, and the message shown
Left(sess, graph, env, shown, extracted) ==
    [session |-> sess, rag |-> graph, env |-> env, shown |-> shown,
     extracted |-> extracted]

\* lines 135-138 and 142: the three assignments, of which the third can raise
Stored(sess, graph, env, result, made) ==
    Left([entities |-> result[1], relationships |-> result[2]],
         IF made.kind = "return" THEN made.value ELSE graph,
         env,
         IF made.kind = "return" THEN "success" ELSE "error",
         result)

\* mutant: the result is stored without the test of the entity list
ExtractedAlways(sess, graph, env, result) ==
    Stored(sess, graph, env, result, SessionGraphRAG(result[1], result[2], env))

\* lines 134-140: result is what extraction returned
Extracted(sess, graph, env, result) ==
    IF result[1] # <<>>
    THEN Stored(sess, graph, env, result,
                SessionGraphRAG(result[1], result[2], env))
    ELSE Left(sess, graph, env, "error", result)

\* lines 124-132: read is the outcome of reading the text
Generated(sess, graph, env, read, adapter) ==
    IF read.kind = "raise" THEN Left(sess, graph, env, "error", <<>>)
    ELSE Extracted(sess, graph, env,
                   extract_entities_and_relationships(read.value, adapter).value)

\* The handler of the Generate button.  secret tells whether the secrets of
\* the app hold GEMINI_API_KEY, env whether the environment does; Streamlit
\* copies the secrets it reads into the environment.  st.stop() ends the run.
generate_button(sess, graph, env, secret, chosen, read, adapter) ==
    IF ~chosen THEN Left(sess, graph, env, "warning", <<>>)
    ELSE IF ~secret /\ ~env THEN Left(sess, graph, env, "stopped", <<>>)
    ELSE Generated(sess, graph, env \/ secret, read, adapter)

\* lines 380-397: the dictionary that is written
EntityObject(e) ==
    JObj(<<<<<<"name">>, e.name>>, <<<<"type">>, e.type>>,
           <<<<"description">>, e.description>>>>)

RelationshipObject(r) ==
    JObj(<<<<<<"source">>, r.source>>, <<<<"target">>, r.target>>,
           <<<<"relation">>, r.relation>>, <<<<"description">>, r.description>>>>)

ExportData(sess) ==
    JObj(<<<<<<"entities">>,
             JArr(<<>> \o [i \in 1..Len(sess.entities) |->
                                EntityObject(sess.entities[i])])>>,
           <<<<"relationships">>,
             JArr(<<>> \o [i \in 1..Len(sess.relationships) |->
                                RelationshipObject(sess.relationships[i])])>>>>)

\* the data of the download button
download_json(sess) == json_dumps(ExportData(sess), 0)

\* ----------------------------------------------------------------- the caller
\* The callers (src/app.py, src/streamlit_app.py) are single threaded scripts:
\* one call is made at a time, its outcome is shown, and the script goes on.

Idle == ret.op = "none"

\* the caller has used the outcome of the last call
Continue ==
    /\ ~Idle
    /\ ret' = NoRet
    /\ UNCHANGED <<apiKey, args, rag, session>>

\* ------------------------------------------------ graph operations: the spec

GraphEntities == {Entity(n, "T", "d") : n \in Names}

\* the relationships a list is drawn from: a triangle and a self loop; an
\* endpoint is unknown when the entity list lacks its name
GraphRelationships ==
    {Relationship("a", "b", "r1", "d1"), Relationship("b", "c", "r2", "d2"),
     Relationship("c", "a", "r1", "d1"), Relationship("a", "a", "r1", "d1")}

InitGraph ==
    /\ apiKey \in BOOLEAN
    /\ args \in [entities : SeqsUpTo(GraphEntities, MaxEnt),
                 relationships : SeqsUpTo(GraphRelationships, MaxRel)]
    /\ rag = NoRag
    /\ ret = NoRet
    /\ session = NoSession

\* rag = GraphRAG(entities, relationships)
Construct ==
    /\ Idle
    /\ rag = NoRag
    /\ LET o == GraphRAG_init(args.entities, args.relationships, apiKey)
       IN  /\ rag' = IF o.kind = "return" THEN o.value ELSE NoRag
           /\ ret' = [op |-> "__init__", kind |-> o.kind,
                      value |-> IF o.kind = "raise" THEN o.value ELSE <<>>,
                      calls |-> 0, call |-> <<>>]
    /\ UNCHANGED <<apiKey, args, session>>

\* rag.find_path(a, b)
FindPath ==
    /\ Idle
    /\ rag # NoRag
    /\ \E a \in Names, b \in Names :
         \E o \in find_path(rag, a, b) :
            ret' = [op |-> "find_path", kind |-> o.kind, value |-> o.value,
                    calls |-> 0, call |-> <<a, b>>]
    /\ UNCHANGED <<apiKey, args, rag, session>>

\* rag.get_statistics()
GetStatistics ==
    /\ Idle
    /\ rag # NoRag
    /\ ret' = [op |-> "get_statistics", kind |-> "return",
               value |-> graph_density(rag), calls |-> 0, call |-> <<>>]
    /\ UNCHANGED <<apiKey, args, rag, session>>

NextGraph == Construct \/ FindPath \/ GetStatistics \/ Continue

SpecGraph == InitGraph /\ [][NextGraph]_vars

\* ------------------------------------------------- graph operations: claims
\* The claims are stated on the entity and relationship lists themselves.

\* the relationships of rs whose endpoints are both entity names
KnownRels(es, rs) ==
    {r \in Range(rs) : r.source \in EntityNames(es) /\ r.target \in EntityNames(es)}

\* u and v are joined by a relationship with known endpoints
Joined(es, rs, u, v) ==
    \E r \in KnownRels(es, rs) : {r.source, r.target} = {u, v}

\* the node sequences over the entity names that walk from a to b along
\* joined pairs; a shortest one repeats no node, so has at most N nodes
Walks(es, rs, a, b) ==
    {w \in SeqsUpTo(EntityNames(es), Cardinality(EntityNames(es))) :
        /\ w # <<>>
        /\ w[1] = a
        /\ w[Len(w)] = b
        /\ \A i \in 1..(Len(w) - 1) : Joined(es, rs, w[i], w[i + 1])}

\* C1: the built graph has an edge between source and target for every
\* relationship whose endpoints are both entity names, no edge for a
\* relationship with an unknown endpoint (every edge comes from a relationship
\* with known endpoints), and no node besides the entity names.
C1_DropInvalid ==
    rag # NoRag =>
        LET es == rag.entities
            rs == rag.relationships
            G  == rag.graph
        IN  /\ \A r \in Range(rs) :
                 IF r \in KnownRels(es, rs)
                 THEN HasEdge(G, r.source, r.target)
                 ELSE ~HasEdge(G, r.source, r.target)
            /\ \A i \in 1..Len(G.edges) :
                 \E r \in KnownRels(es, rs) :
                    G.edges[i].key = {r.source, r.target}
            /\ Range(G.nodes) = EntityNames(es)

C1_Witness ==
    /\ rag # NoRag
    /\ \E r \in Range(rag.relationships) : r \notin KnownRels(rag.entities, rag.relationships)
    /\ KnownRels(rag.entities, rag.relationships) # {}
    /\ Len(rag.graph.edges) > 0

\* C6: find_path(a, b) returns normally; the result is empty exactly when a or
\* b is no node or b is unreachable from a; otherwise it starts with a, ends
\* with b, joins consecutive nodes by edges and no walk from a to b has fewer
\* edges; find_path(a, a) is <<a>> when a is a node and empty otherwise.
C6_FindPath ==
    ret.op = "find_path" =>
        LET es == rag.entities
            rs == rag.relationships
            a  == ret.call[1]
            b  == ret.call[2]
            p  == ret.value
            W  == Walks(es, rs, a, b)
        IN  /\ ret.kind = "return"
            /\ (p = <<>>) <=>
                  (a \notin EntityNames(es) \/ b \notin EntityNames(es) \/ W = {})
            /\ p # <<>> => /\ p \in W
                           /\ \A w \in W : Len(w) >= Len(p)
            /\ a = b => p = IF a \in EntityNames(es) THEN <<a>> ELSE <<>>

\* a direct edge is returned although a longer walk exists too
C6_Witness ==
    /\ ret.op = "find_path"
    /\ Len(ret.value) = 2
    /\ \E w \in Walks(rag.entities, rag.relationships, ret.call[1], ret.call[2]) :
          Len(w) = 3

\* C10: the density is 2E / (N (N - 1)) for E materialized edges and N nodes,
\* 0 when N <= 1, and exactly 1 for a complete graph on N >= 2 nodes.
C10_Density ==
    ret.op = "get_statistics" =>
        LET es == rag.entities
            rs == rag.relationships
            N  == Cardinality(EntityNames(es))
            E  == Cardinality({{r.source, r.target} : r \in KnownRels(es, rs)})
            d  == ret.value
            complete ==
               /\ \A u \in EntityNames(es), v \in EntityNames(es) :
                     Joined(es, rs, u, v) <=> u # v
        IN  /\ d[2] > 0
            /\ N <= 1 => d[1] = 0
            /\ N >= 2 => d[1] * (N * (N - 1)) = (2 * E) * d[2]
            /\ (N >= 2 /\ complete) => d[1] = d[2]

\* the statistics of a triangle
C10_Witness ==
    /\ ret.op = "get_statistics"
    /\ Cardinality(EntityNames(rag.entities)) = 3
    /\ \A u \in Names, v \in Names :
          Joined(rag.entities, rag.relationships, u, v) <=> u # v
    /\ ret.value = <<6, 6>>

\* C5: without the credential the graph operations stay available: a
\* GraphRAG built from given lists exists although GEMINI_API_KEY is absent.
C5_TraversalWithoutKey ==
    (ret.op = "__init__" /\ ~apiKey) => (ret.kind = "return" /\ rag # NoRag)

\* C23: the density get_statistics reports, numerator over denominator, is
\* at least 0 and at most 1.
C23_DensityInUnitInterval ==
    ret.op = "get_statistics" =>
        /\ ret.value[2] > 0
        /\ 0 <= ret.value[1]
        /\ ret.value[1] <= ret.value[2]

\* ------------------------------------------------- the query context: spec

MaxCtxEnt == 3
MaxPick == 2
MaxOver == 2

ContextEntities ==
    {Entity(<<"A", "b">>, <<"x">>, <<>>),
     Entity(<<"b">>, <<"X">>, <<"a", "B">>),
     Entity(<<"c">>, <<"y">>, <<"b", "a">>)}

Queries ==
    {<<>>, <<"a">>, <<"B">>, <<"a", "b">>, <<"B", "A">>, <<"x">>, <<"z">>}

\* <<"q">> names no entity
ContextRelationships ==
    <<Relationship(<<"A", "b">>, <<"b">>, "r1", "d1"),
      Relationship(<<"c">>, <<"c">>, "r2", "d2"),
      Relationship(<<"b">>, <<"q">>, "r3", "d3")>>

\* <<fill, odd>>: a list repeats relationship `fill` and holds relationship
\* `odd` at its second place
ContextShapes == {<<1, 1>>, <<1, 2>>, <<3, 2>>, <<2, 1>>}

\* the list of n relationships of a shape
RelList(shape, n) ==
    [i \in 1..n |-> ContextRelationships[IF i = 2 THEN shape[2] ELSE shape[1]]]

\* lengths around the limit of the relationships section, and short ones
ContextLengths == {0, 2} \cup ((RelLimit - 1)..(RelLimit + MaxOver))

AdapterOutcomes ==
    {Ok(<<"answer">>), Ok(<<>>), Exc("quota"), Exc("blocked")}

InitContext ==
    /\ apiKey = TRUE
    /\ \E es \in SeqsUpTo(ContextEntities, MaxCtxEnt),
          shape \in ContextShapes, n \in ContextLengths :
          args = [entities |-> es, relationships |-> RelList(shape, n)]
    /\ rag = GraphRAG_init(args.entities, args.relationships, apiKey).value
    /\ ret = NoRet
    /\ session = NoSession

\* rag.get_graph_context(query, max_entities)
GetGraphContext ==
    /\ Idle
    /\ rag # NoRag
    /\ \E q \in Queries, k \in (-1)..MaxPick :
          ret' = [op |-> "get_graph_context", kind |-> "return",
                  value |-> get_graph_context(rag, q, k), calls |-> 0,
                  call |-> <<q, k>>]
    /\ UNCHANGED <<apiKey, args, rag, session>>

\* rag.query_graph(query)
QueryGraph ==
    /\ Idle
    /\ rag # NoRag
    /\ \E q \in Queries, adapter \in AdapterOutcomes :
          LET o == query_graph(rag, q, adapter)
          IN  ret' = [op |-> "query_graph", kind |-> o.kind, value |-> o.value,
                      calls |-> o.calls, call |-> <<q, adapter>>]
    /\ UNCHANGED <<apiKey, args, rag, session>>

NextContext == GetGraphContext \/ QueryGraph \/ Continue

SpecContext == InitContext /\ [][NextContext]_vars

\* ------------------------------------------------ the query context: claims

\* the n-th smallest element of a set of indices
NthIndex(I, n) == CHOOSE i \in I : Cardinality({j \in I : j < i}) = n - 1

\* the elements of s at the first `limit` indices of I, in increasing order
FirstAt(s, I, limit) ==
    [n \in 1..Min(limit, Cardinality(I)) |-> s[NthIndex(I, n)]]

\* q occurs in s when case is ignored
OccursIgnoringCase(q, s) ==
    \E i \in 1..(Len(s) - Len(q) + 1) :
       \A j \in 1..Len(q) : LowerChar(s[i + j - 1]) = LowerChar(q[j])

\* C7: for max_entities >= 0 the entities section lists the entities whose
\* name, description or type contains the query ignoring case, in list order,
\* cut to the first max_entities; when that is empty, the first max_entities
\* entities of the list; never more than max_entities.
C7_Selection ==
    (ret.op = "get_graph_context" /\ ret.call[2] >= 0) =>
        LET es  == rag.entities
            q   == ret.call[1]
            k   == ret.call[2]
            sel == ret.value.entities
            I   == {i \in 1..Len(es) :
                       \/ OccursIgnoringCase(q, es[i].name)
                       \/ OccursIgnoringCase(q, es[i].description)
                       \/ OccursIgnoringCase(q, es[i].type)}
            hit == FirstAt(es, I, k)
        IN  /\ Len(sel) <= k
            /\ sel = IF hit # <<>> THEN hit ELSE FirstAt(es, 1..Len(es), k)

\* more entities match than are asked for, and one matches only when case is
\* ignored
C7_Witness ==
    /\ ret.op = "get_graph_context"
    /\ ret.call[2] = 1
    /\ Len(ret.value.entities) = 1
    /\ Cardinality({i \in 1..Len(rag.entities) : Matches(rag.entities[i], ret.call[1])}) > 1
    /\ ~MatchesCaseSensitive(ret.value.entities[1], ret.call[1])

\* C8: the relationships section lists, in list order, the first RelLimit
\* (or all, if fewer) relationships whose source or target is the name of a
\* listed entity, and nothing else.
C8_Relationships ==
    ret.op = "get_graph_context" =>
        LET rs    == rag.relationships
            names == {ret.value.entities[i].name : i \in 1..Len(ret.value.entities)}
            I     == {i \in 1..Len(rs) : rs[i].source \in names \/ rs[i].target \in names}
            want  == FirstAt(rs, I, RelLimit)
            got   == ret.value.relationships
        IN  /\ Len(got) <= RelLimit
            /\ Len(got) = Len(want)
            /\ \A n \in 1..Len(got) :
                  /\ got[n].source = want[n].source
                  /\ got[n].target = want[n].target
                  /\ got[n].relation = want[n].relation

\* more than RelLimit relationships touch a listed entity, others touch none
C8_Witness ==
    /\ ret.op = "get_graph_context"
    /\ Len(ret.value.relationships) = RelLimit
    /\ LET names == {ret.value.entities[i].name : i \in 1..Len(ret.value.entities)}
       IN  /\ Cardinality({i \in 1..Len(rag.relationships) :
                              \/ rag.relationships[i].source \in names
                              \/ rag.relationships[i].target \in names}) > RelLimit
           /\ \E i \in 1..RelLimit :
                 /\ rag.relationships[i].source \notin names
                 /\ rag.relationships[i].target \notin names

\* C9: query_graph invokes the adapter once and returns normally: the
\* response text as it is, or the error text with the reason of the failure.
C9_QueryGraph ==
    ret.op = "query_graph" =>
        LET adapter == ret.call[2]
        IN  /\ ret.kind = "return"
            /\ ret.calls = 1
            /\ adapter.kind = "return" => ret.value = adapter.value
            /\ adapter.kind = "raise" => ret.value = <<ErrorPrefix, adapter.value>>

C9_Witness ==
    /\ ret.op = "query_graph"
    /\ ret.call[2] = Exc("quota")
    /\ ret.value = <<ErrorPrefix, "quota">>

\* C24: the source and the target of every relationship line of the context
\* are names of entities of the instance, so the line is an edge of its
\* graph.
C24_ContextLinesAreEdges ==
    ret.op = "get_graph_context" =>
        \A i \in 1..Len(ret.value.relationships) :
            /\ ret.value.relationships[i].source \in EntityNames(rag.entities)
            /\ ret.value.relationships[i].target \in EntityNames(rag.entities)
            /\ HasEdge(rag.graph, ret.value.relationships[i].source,
                       ret.value.relationships[i].target)

\* -------------------------------------------------- graph traversal: the spec

\* the entity lists: in different orders, and with a name that occurs twice
TraverseEntityLists ==
    {<<>>,
     <<Entity("a", "T", "d")>>,
     <<Entity("a", "T", "d"), Entity("b", "T", "d")>>,
     <<Entity("a", "T", "d"), Entity("b", "T", "d"), Entity("c", "T", "d")>>,
     <<Entity("c", "T", "d"), Entity("a", "T", "d"), Entity("b", "T", "d")>>,
     <<Entity("a", "T", "d"), Entity("b", "T", "d"), Entity("a", "U", "e")>>}

\* the relationships a list is drawn from: the pair a, b in both directions
\* with different labels, a self loop, an unknown endpoint
TraverseRelationships ==
    {Relationship("a", "b", "r1", "d1"), Relationship("b", "a", "r2", "d2"),
     Relationship("b", "c", "r1", "d1"), Relationship("a", "a", "r3", "d3"),
     Relationship("c", "q", "r1", "d1")}

StarNames == <<"n1", "n2", "n3", "n4", "n5", "n6", "n7", "n8", "n9">>

\* n entities, the first related to the next k
Star(n, k) ==
    [entities |-> [i \in 1..n |-> Entity(StarNames[i], "T", "d")],
     relationships |->
        [i \in 1..k |-> Relationship(StarNames[1], StarNames[i + 1], "r1", "d1")]]

TraverseInputs ==
    [entities : TraverseEntityLists,
     relationships : SeqsUpTo(TraverseRelationships, MaxTravRel)]
    \cup UNION {{Star(n, k) : k \in 0..(n - 1)} : n \in 1..MaxStar}

InitTraverse ==
    /\ apiKey = TRUE
    /\ args \in TraverseInputs
    /\ rag = NoRag
    /\ ret = NoRet
    /\ session = NoSession

\* rag.get_most_connected_entities(top_n)
GetMostConnectedEntities ==
    /\ Idle
    /\ rag # NoRag
    /\ \E top_n \in (-1)..MaxTop :
          ret' = [op |-> "get_most_connected_entities", kind |-> "return",
                  value |-> get_most_connected_entities(rag, top_n),
                  calls |-> 0, call |-> <<top_n>>]
    /\ UNCHANGED <<apiKey, args, rag, session>>

\* rag.get_subgraph(center, depth)
GetSubgraph ==
    /\ Idle
    /\ rag # NoRag
    /\ \E center \in EntityNames(rag.entities) \cup {"q"}, depth \in 0..MaxDepth :
          ret' = [op |-> "get_subgraph", kind |-> "return",
                  value |-> get_subgraph(rag, center, depth),
                  calls |-> 0, call |-> <<center, depth>>]
    /\ UNCHANGED <<apiKey, args, rag, session>>

\* rag.get_entity_info(name)
GetEntityInfo ==
    /\ Idle
    /\ rag # NoRag
    /\ \E name \in EntityNames(rag.entities) \cup {"q"} :
          ret' = [op |-> "get_entity_info", kind |-> "return",
                  value |-> get_entity_info(rag, name),
                  calls |-> 0, call |-> <<name>>]
    /\ UNCHANGED <<apiKey, args, rag, session>>

NextTraverse ==
    Construct \/ GetMostConnectedEntities \/ GetSubgraph \/ GetEntityInfo
        \/ Continue

SpecTraverse == InitTraverse /\ [][NextTraverse]_vars

\* ------------------------------------------------ graph traversal: claims

\* the distinct neighbours of u: the names joined with u by a relationship
\* with known endpoints
NeighboursOf(es, rs, u) == {v \in EntityNames(es) : Joined(es, rs, u, v)}

\* the place where a name is first seen in the entity list
FirstSeen(es, n) == CHOOSE i \in 1..Len(es) :
                       es[i].name = n /\ \A j \in 1..(i - 1) : es[j].name # n

\* C11: for top_n >= 0 the result has min(top_n, N) pairs of distinct entity
\* names, each with the number of its distinct neighbours, by that number
\* descending and, for equal numbers, in first-seen order.
C11_MostConnected ==
    (ret.op = "get_most_connected_entities" /\ ret.call[1] >= 0) =>
        LET es == rag.entities
            rs == rag.relationships
            v  == ret.value
        IN  /\ Len(v) = Min(ret.call[1], Cardinality(EntityNames(es)))
            /\ \A p \in 1..Len(v) :
                  /\ v[p][1] \in EntityNames(es)
                  /\ v[p][2] = Cardinality(NeighboursOf(es, rs, v[p][1]))
            /\ \A p \in 1..Len(v), q \in 1..Len(v) :
                  p < q =>
                     \/ v[p][2] > v[q][2]
                     \/ /\ v[p][2] = v[q][2]
                        /\ FirstSeen(es, v[p][1]) < FirstSeen(es, v[q][1])

\* the names within k joined pairs of c
RECURSIVE Within(_, _, _, _)
Within(es, rs, c, k) ==
    IF k = 0 THEN {c}
    ELSE Within(es, rs, c, k - 1)
            \cup {v \in EntityNames(es) :
                     \E u \in Within(es, rs, c, k - 1) : Joined(es, rs, u, v)}

\* C12: get_subgraph(center, depth) is ([], []) when center is no entity
\* name; otherwise its entities are the entities whose name is within depth
\* joined pairs of center and its relationships are the relationships with
\* both endpoints among those names, both in list order.
C12_Subgraph ==
    ret.op = "get_subgraph" =>
        LET es == rag.entities
            rs == rag.relationships
            S  == Within(es, rs, ret.call[1], ret.call[2])
        IN  IF ret.call[1] \notin EntityNames(es)
            THEN ret.value = <<<<>>, <<>>>>
            ELSE /\ ret.value[1] =
                       FirstAt(es, {i \in 1..Len(es) : es[i].name \in S}, Len(es))
                 /\ ret.value[2] =
                       FirstAt(rs, {i \in 1..Len(rs) :
                                       rs[i].source \in S /\ rs[i].target \in S},
                               Len(rs))
                 /\ (ret.call[2] = 0 =>
                        \A i \in 1..Len(ret.value[1]) :
                           ret.value[1][i].name = ret.call[1])

\* one hop leaves out an entity two hops away and its relationship
C12_Witness ==
    /\ ret.op = "get_subgraph"
    /\ ret.call[2] = 1
    /\ Len(ret.value[1]) = 2
    /\ Len(rag.entities) = 3
    /\ Len(ret.value[2]) >= 1
    /\ Len(ret.value[2]) < Len(rag.relationships)
    /\ Within(rag.entities, rag.relationships, ret.call[1], 2) = {"a", "b", "c"}

\* the last relationship of the list that joins u and v, endpoints known
LastRel(es, rs, u, v) ==
    rs[CHOOSE i \in 1..Len(rs) :
          /\ rs[i] \in KnownRels(es, rs)
          /\ {rs[i].source, rs[i].target} = {u, v}
          /\ \A j \in (i + 1)..Len(rs) :
                ~(rs[j] \in KnownRels(es, rs)
                  /\ {rs[j].source, rs[j].target} = {u, v})]

\* C13: get_entity_info(name) returns normally; it is None exactly when no
\* entity has that name; otherwise it holds an entity of that name and one
\* connection per distinct neighbour, with the relation and the description
\* of the edge between the two.
C13_EntityInfo ==
    ret.op = "get_entity_info" =>
        LET es == rag.entities
            rs == rag.relationships
            u  == ret.call[1]
            N  == NeighboursOf(es, rs, u)
        IN  /\ ret.kind = "return"
            /\ (ret.value = PyNone) <=> (u \notin EntityNames(es))
            /\ ret.value # PyNone =>
                  LET cs == ret.value.connections
                  IN  /\ ret.value.entity \in Range(es)
                      /\ ret.value.entity.name = u
                      /\ Len(cs) = Cardinality(N)
                      /\ {cs[i].entity : i \in 1..Len(cs)} = N
                      /\ \A i \in 1..Len(cs) :
                            \E j \in 1..Len(rag.graph.edges) :
                               /\ rag.graph.edges[j].key = {u, cs[i].entity}
                               /\ cs[i].relation = rag.graph.edges[j].relation
                               /\ cs[i].description = rag.graph.edges[j].description
                               /\ cs[i].relation =
                                     LastRel(es, rs, u, cs[i].entity).relation

\* an entity with two neighbours, one of them itself
C13_Witness ==
    /\ ret.op = "get_entity_info"
    /\ ret.value # PyNone
    /\ Len(ret.value.connections) = 2
    /\ \E i \in 1..2 : ret.value.connections[i].entity = ret.call[1]
    /\ \E i \in 1..2 : ret.value.connections[i].relation = "r2"

\* C18: for every pair of names joined by relationships with known
\* endpoints, in either direction, the graph has exactly one edge, and it
\* carries the relation and the description of the last such relationship.
C18_OneEdgePerPair ==
    rag # NoRag =>
        LET es == rag.entities
            rs == rag.relationships
            G  == rag.graph
        IN  \A u \in EntityNames(es), v \in EntityNames(es) :
               Joined(es, rs, u, v) =>
                  /\ Cardinality({i \in 1..Len(G.edges) : G.edges[i].key = {u, v}}) = 1
                  /\ \A i \in 1..Len(G.edges) :
                        G.edges[i].key = {u, v} =>
                           /\ G.edges[i].relation = LastRel(es, rs, u, v).relation
                           /\ G.edges[i].description =
                                 LastRel(es, rs, u, v).description

\* a -> b and then b -> a with another label: one edge, the second label
C18_Witness ==
    /\ rag # NoRag
    /\ Len(rag.relationships) >= 2
    /\ rag.relationships[1] = Relationship("a", "b", "r1", "d1")
    /\ rag.relationships[2] = Relationship("b", "a", "r2", "d2")
    /\ Len(rag.relationships) = 2
    /\ {"a", "b"} \subseteq EntityNames(rag.entities)
    /\ Len(rag.graph.edges) = 1
    /\ rag.graph.edges[1].relation = "r2"

\* ------------------------------------------------------ extraction: the spec

MaxDocEnt == 1
MaxDocRel == 1

Texts ==
    {<<>>, <<"w", " ", "w">>,
     <<"w", "-", NL, "w", " ", "[7]", NL, NL, "(1999)", " ", "7", " ">>}

\* "units"
Str(units) == <<QUOTE>> \o units \o <<QUOTE>>

\* the texts of `parts` with `sep` between them
RECURSIVE JoinWith(_, _)
JoinWith(parts, sep) ==
    IF parts = <<>> THEN <<>>
    ELSE IF Len(parts) = 1 THEN parts[1]
    ELSE parts[1] \o sep \o JoinWith(Tail(parts), sep)

\* an object written from its fields <<key, units of the value>>
RenderObject(fields) ==
    <<"{">> \o JoinWith([i \in 1..Len(fields) |->
                           Str(<<fields[i][1]>>) \o <<":">> \o Str(fields[i][2])],
                        <<",">>) \o <<"}">>

RenderArray(objects) ==
    <<"[">> \o JoinWith([i \in 1..Len(objects) |-> RenderObject(objects[i])],
                        <<",">>) \o <<"]">>

\* the document the prompt asks for
RenderDocument(doc) ==
    <<"{">> \o Str(<<"entities">>) \o <<":">> \o RenderArray(doc.entities)
        \o <<",">> \o Str(<<"relationships">>) \o <<":">>
        \o RenderArray(doc.relationships) \o <<"}">>

\* the texts of `parts` from lo to hi, one after the other
RECURSIVE Concat(_, _, _)
Concat(parts, lo, hi) ==
    IF lo > hi THEN <<>>
    ELSE IF lo = hi THEN parts[lo]
    ELSE Concat(parts, lo, (lo + hi) \div 2)
            \o Concat(parts, (lo + hi) \div 2 + 1, hi)

\* the same text with line breaks and indentation
Pretty(s) ==
    Concat([i \in 1..Len(s) |->
              IF s[i] \in {"{", "[", ","} THEN <<s[i], NL, " ", " ">>
              ELSE IF s[i] = ":" THEN <<":", " ">>
              ELSE <<s[i]>>], 1, Len(s))

\* the objects a reply is written from: complete, without the optional
\* description, without a required field, with a field the class lacks,
\* with the empty name
CompleteEntity ==
    <<<<"name", <<"A">>>>, <<"type", <<"T">>>>, <<"description", <<"d">>>>>>

CompleteRelationship ==
    <<<<"source", <<"A">>>>, <<"target", <<"B">>>>, <<"relation", <<"r">>>>,
      <<"description", <<"d">>>>>>

EntityObjects ==
    {CompleteEntity,
     <<<<"name", <<"B">>>>, <<"type", <<"T">>>>>>,
     <<<<"name", <<"A">>>>>>,
     <<<<"name", <<"A">>>>, <<"type", <<"T">>>>, <<"id", <<"x">>>>>>,
     <<<<"name", <<>>>>, <<"type", <<"T">>>>>>}

RelationshipObjects ==
    {CompleteRelationship,
     <<<<"source", <<"A">>>>, <<"target", <<"A">>>>, <<"relation", <<"r">>>>>>,
     <<<<"source", <<"A">>>>, <<"target", <<"B">>>>>>}

Documents ==
    [entities : SeqsUpTo(EntityObjects, MaxDocEnt),
     relationships : SeqsUpTo(RelationshipObjects, MaxDocRel)]

\* a list with a well-formed element before and after a malformed one, and
\* a list that names an entity twice
MixedDocuments ==
    {[entities |-> <<CompleteEntity, <<<<"name", <<"A">>>>, <<"type", <<"U">>>>>>>>,
      relationships |-> <<>>],
     [entities |-> <<CompleteEntity, <<<<"name", <<"A">>>>>>>>,
      relationships |-> <<CompleteRelationship>>],
     [entities |-> <<<<<<"type", <<"T">>>>>>, CompleteEntity>>,
      relationships |-> <<>>]}

CompleteDocuments ==
    [entities : SeqsUpTo({CompleteEntity}, MaxDocEnt),
     relationships : SeqsUpTo({CompleteRelationship}, MaxDocRel)]

\* the replies: a complete document cut off at any place; a whole document
\* as it is, laid out, fenced, inside prose, followed by braces; JSON of
\* another shape; text without JSON
Replies ==
    UNION {LET s == RenderDocument(doc)
           IN  {SubSeq(s, 1, k) : k \in 0..Len(s)}
           : doc \in CompleteDocuments}
    \cup
    UNION {LET s == RenderDocument(doc)
           IN  {s, Pretty(s),
                     <<FENCEJSON, NL>> \o Pretty(s) \o <<NL, FENCE>>,
                     <<"Here", " ", "it", " ", "is", ":", NL>> \o s \o <<NL, "Done">>,
                     s \o <<" ", "{", "note", "}">>,
                     <<"{">> \o Str(<<"entities">>) \o <<":">>
                         \o RenderArray(doc.entities) \o <<"}">>,
                     RenderArray(doc.entities),
                     <<"{">> \o Str(<<"entities">>) \o <<":">> \o Str(<<"A">>)
                         \o <<",">> \o Str(<<"relationships">>) \o <<":">>
                         \o RenderArray(doc.relationships) \o <<"}">>}
           : doc \in Documents \cup MixedDocuments}
    \cup {<<"}", " ", "{">>, <<"no", " ", "JSON">>}

ExtractAdapterOutcomes ==
    {Ok(reply) : reply \in Replies} \cup {Exc("quota"), Exc("blocked")}

InitExtract ==
    /\ apiKey = TRUE
    /\ args \in [text : Texts]
    /\ rag = NoRag
    /\ ret = NoRet
    /\ session = NoSession

\* what the caller holds after the call: the outcome o of the call `call`
Returned(o, call) ==
    [op |-> "extract", kind |-> o.kind, value |-> o.value, calls |-> o.calls,
     call |-> call, attempts |-> o.attempts, prompt |-> o.prompt]

\* generator.extract_entities_and_relationships(text)
Extract ==
    /\ Idle
    /\ \E adapter \in ExtractAdapterOutcomes :
          ret' = Returned(extract_entities_and_relationships(args.text, adapter),
                          <<args.text, adapter>>)
    /\ UNCHANGED <<apiKey, args, rag, session>>

NextExtract == Extract \/ Continue

SpecExtract == InitExtract /\ [][NextExtract]_vars

\* ---------------------------------------------------- extraction: claims

\* C2: when the first decode fails, the text of the second decode is the
\* text of the first followed by as many closing brackets as brackets are
\* open and then as many closing braces as braces are open.
C2_RepairAppends ==
    (ret.op = "extract" /\ Len(ret.attempts) = 2) =>
        LET first == ret.attempts[1]
        IN  ret.attempts[2] =
               first \o Repeat("]", Count(first, "[") - Count(first, "]"))
                     \o Repeat("}", Count(first, "{") - Count(first, "}"))

\* C3: extraction returns normally for every reply and for a failing
\* invocation, and what it returns is either the empty result or the decode
\* of every element of both lists of the decoded document.
C3_NeverRaises ==
    ret.op = "extract" =>
        /\ ret.kind = "return"
        /\ \/ ret.value = EmptyResult
           \/ /\ ret.call[2].kind = "return"
              /\ ret.attempts # <<>>
              /\ LET data == json_loads(Last(ret.attempts))
                     es   == GetItem(data.value, <<"entities">>)
                     rs   == GetItem(data.value, <<"relationships">>)
                 IN  /\ data.kind = "return"
                     /\ es.kind = "return" /\ rs.kind = "return"
                     /\ es.value.t = "arr" /\ rs.value.t = "arr"
                     /\ Len(ret.value[1]) = Len(es.value.v)
                     /\ Len(ret.value[2]) = Len(rs.value.v)
                     /\ \A i \in 1..Len(es.value.v) :
                           /\ Ok(ret.value[1][i].name) = GetItem(es.value.v[i], <<"name">>)
                           /\ Ok(ret.value[1][i].type) = GetItem(es.value.v[i], <<"type">>)
                     /\ \A i \in 1..Len(rs.value.v) :
                           /\ Ok(ret.value[2][i].source) = GetItem(rs.value.v[i], <<"source">>)
                           /\ Ok(ret.value[2][i].target) = GetItem(rs.value.v[i], <<"target">>)
                           /\ Ok(ret.value[2][i].relation) = GetItem(rs.value.v[i], <<"relation">>)

\* a reply that is valid JSON of the wrong shape gives the empty result
C3_Witness ==
    /\ ret.op = "extract"
    /\ ret.kind = "return"
    /\ ret.value = EmptyResult
    /\ Len(ret.attempts) = 1
    /\ json_loads(ret.attempts[1]).kind = "return"

\* C4: extraction of the empty text returns the empty result and does not
\* invoke the adapter.
C4_EmptyInputShortCircuits ==
    (ret.op = "extract" /\ ret.call[1] = <<>>) =>
        (ret.value = EmptyResult /\ ret.calls = 0)

\* what the extractor decoded when a json.loads succeeded: the value of the
\* last text handed to it
LoadedData == json_loads(Last(ret.attempts))

DataDecoded ==
    /\ ret.op = "extract"
    /\ ret.attempts # <<>>
    /\ LoadedData.kind = "return"

\* the elements under `key` of the decoded document, none when there is no
\* such list
ElementsOf(data, key) ==
    IF GetItem(data, key).kind = "return" /\ GetItem(data, key).value.t = "arr"
    THEN GetItem(data, key).value.v
    ELSE <<>>

LacksField(element, required) ==
    element.t # "obj" \/ ~(required \subseteq Keys(element))

LacksOnlyDescription(element, required) ==
    element.t = "obj" /\ Keys(element) = required

SomeElementLacksField(data) ==
    \/ \E i \in 1..Len(ElementsOf(data, <<"entities">>)) :
          LacksField(ElementsOf(data, <<"entities">>)[i], EntityFields)
    \/ \E i \in 1..Len(ElementsOf(data, <<"relationships">>)) :
          LacksField(ElementsOf(data, <<"relationships">>)[i], RelationshipFields)

\* C17: when the decoded document lacks the entities or the relationships
\* key, or an element of either list lacks a required field, extraction
\* returns the empty result; otherwise a result has one item per element, and
\* the item of an element that lacks only description has the empty
\* description.
C17_DecodeAllOrNothing ==
    DataDecoded =>
        /\ (\/ LoadedData.value.t # "obj"
            \/ <<"entities">> \notin Keys(LoadedData.value)
            \/ <<"relationships">> \notin Keys(LoadedData.value)
            \/ SomeElementLacksField(LoadedData.value))
              => ret.value = EmptyResult
        /\ ret.value # EmptyResult =>
              /\ Len(ret.value[1]) = Len(ElementsOf(LoadedData.value, <<"entities">>))
              /\ Len(ret.value[2]) = Len(ElementsOf(LoadedData.value, <<"relationships">>))
              /\ \A i \in 1..Len(ret.value[1]) :
                    LacksOnlyDescription(
                        ElementsOf(LoadedData.value, <<"entities">>)[i], EntityFields)
                        => ret.value[1][i].description = JStr(<<>>)
              /\ \A i \in 1..Len(ret.value[2]) :
                    LacksOnlyDescription(
                        ElementsOf(LoadedData.value, <<"relationships">>)[i],
                        RelationshipFields)
                        => ret.value[2][i].description = JStr(<<>>)

\* a list of a well-formed entity and one without type, with a well-formed
\* relationship: nothing is returned
C17_Witness ==
    /\ DataDecoded
    /\ ret.value = EmptyResult
    /\ Len(ElementsOf(LoadedData.value, <<"entities">>)) = 2
    /\ ~LacksField(ElementsOf(LoadedData.value, <<"entities">>)[1], EntityFields)
    /\ LacksField(ElementsOf(LoadedData.value, <<"entities">>)[2], EntityFields)
    /\ Len(ElementsOf(LoadedData.value, <<"relationships">>)) = 1
    /\ ~LacksField(ElementsOf(LoadedData.value, <<"relationships">>)[1],
                   RelationshipFields)

\* C20: a text handed to json.loads that is not empty ends with a closing
\* brace, and when a second text is handed to json.loads it is the first
\* text, it fails as the first did, and the empty result is returned.
C20_RepairNeverAppends ==
    (ret.op = "extract" /\ ret.attempts # <<>> /\ ret.attempts[1] # <<>>) =>
        /\ Last(ret.attempts[1]) = "}"
        /\ Len(ret.attempts) = 2 =>
              /\ ret.attempts[2] = ret.attempts[1]
              /\ json_loads(ret.attempts[2]).kind = "raise"
              /\ json_loads(ret.attempts[2]) = json_loads(ret.attempts[1])
              /\ ret.value = EmptyResult

\* a reply cut off after a closing brace: brackets and braces are open, and
\* the second text is the first
C20_Witness ==
    /\ ret.op = "extract"
    /\ Len(ret.attempts) = 2
    /\ ret.attempts[1] # <<>>
    /\ Count(ret.attempts[1], "{") > Count(ret.attempts[1], "}")
    /\ Count(ret.attempts[1], "[") > Count(ret.attempts[1], "]")
    /\ ret.attempts[2] = ret.attempts[1]

\* C15: every entity of a result of extraction has a name that is not empty,
\* and no two entities of a result have the same name.
C15_NamesNonEmptyAndUnique ==
    ret.op = "extract" =>
        /\ \A i \in 1..Len(ret.value[1]) : ret.value[1][i].name # JStr(<<>>)
        /\ \A i, j \in 1..Len(ret.value[1]) :
              ret.value[1][i].name = ret.value[1][j].name => i = j

\* --------------------------------------------------------- the session: spec

\* documents of replies: two entities, one without description, and a
\* relationship; an entity whose description holds a quote, a backslash, a
\* line feed and characters outside ASCII; relationships without entities
SessionDocuments ==
    {[entities |-> <<CompleteEntity, <<<<"name", <<"B">>>>, <<"type", <<"T">>>>>>>>,
      relationships |-> <<CompleteRelationship>>],
     [entities |-> <<<<<<"name", <<"C">>>>, <<"type", <<"T">>>>,
                       <<"description",
                         <<"d", ESCQUOTE, " ", "e", ESCBACK, ESCNL, ESCU, EACUTE>>>>>>>>,
      relationships |-> <<<<<<"source", <<"C">>>>, <<"target", <<"C">>>>,
                            <<"relation", <<"r", ESCQUOTE>>>>>>>>],
     [entities |-> <<>>, relationships |-> <<CompleteRelationship>>]}

\* a reply whose entity is named by a list
ListNamedReply ==
    <<"{">> \o Str(<<"entities">>) \o <<":", "[", "{">> \o Str(<<"name">>)
        \o <<":", "[">> \o Str(<<"A">>) \o <<"]", ",">> \o Str(<<"type">>)
        \o <<":">> \o Str(<<"T">>) \o <<"}", "]", ",">>
        \o Str(<<"relationships">>) \o <<":", "[", "]", "}">>

SessionAdapterOutcomes ==
    {Ok(RenderDocument(doc)) : doc \in SessionDocuments}
    \cup {Ok(ListNamedReply), Ok(<<"no", " ", "JSON">>), Exc("quota")}

\* the outcomes of reading the uploaded file or input.txt
SessionReads == {Ok(<<"w", " ", "w">>), Exc("FileNotFoundError")}

InitSession ==
    /\ apiKey \in BOOLEAN
    /\ args \in [secret : BOOLEAN]
    /\ rag = NoRag
    /\ ret = NoRet
    /\ session = NoSession

\* one run of the script with the Generate button pressed
GenerateKnowledgeGraph ==
    /\ Idle
    /\ \E chosen \in BOOLEAN, read \in SessionReads,
          adapter \in SessionAdapterOutcomes :
          LET o == generate_button(session, rag, apiKey, args.secret, chosen,
                                   read, adapter)
          IN  /\ session' = o.session
              /\ rag' = o.rag
              /\ apiKey' = o.env
              /\ ret' = [op |-> "generate", kind |-> "return", value |-> o.shown,
                         calls |-> 0, call |-> <<chosen, read, adapter>>,
                         extracted |-> o.extracted]
    /\ UNCHANGED args

\* one run of the script with Download as JSON pressed; the section is shown
\* when the session has a graph
DownloadAsJson ==
    /\ Idle
    /\ rag # NoRag
    /\ ret' = [op |-> "download", kind |-> "return",
               value |-> download_json(session), calls |-> 0, call |-> <<>>]
    /\ UNCHANGED <<apiKey, args, rag, session>>

NextSession == GenerateKnowledgeGraph \/ DownloadAsJson \/ Continue

SpecSession == InitSession /\ [][NextSession]_vars

\* ------------------------------------------------------- the session: claims

\* C14: the downloaded document decodes, and the structural decode of it
\* gives the entities and the relationships of the session, in their order
\* and field for field.
C14_ExportRoundTrip ==
    ret.op = "download" =>
        /\ json_loads(ret.value).kind = "return"
        /\ DecodeEntities(json_loads(ret.value).value) = Ok(session.entities)
        /\ DecodeRelationships(json_loads(ret.value).value)
              = Ok(session.relationships)

\* a download of a session whose texts hold a quote and a line feed
C14_Witness ==
    /\ ret.op = "download"
    /\ session.entities # <<>>
    /\ session.relationships # <<>>
    /\ {QUOTE, NL, BACKSLASH} \subseteq Range(session.entities[1].description.v)
    /\ QUOTE \in Range(session.relationships[1].relation.v)

\* C16: after a run of the Generate handler in which extraction returned a
\* list of entities that is not empty, the entities and relationships of the
\* session are the extracted ones and the graph of the session is the graph
\* built from them.
C16_SessionReplaced ==
    (ret.op = "generate" /\ ret.extracted # <<>> /\ ret.extracted[1] # <<>>) =>
        /\ session.entities = ret.extracted[1]
        /\ session.relationships = ret.extracted[2]
        /\ rag # NoRag
        /\ rag.entities = ret.extracted[1]
        /\ rag.relationships = ret.extracted[2]
        /\ rag.graph = build_networkx_graph(ret.extracted[1], ret.extracted[2])

\* C21: either the session has no graph and its two lists are empty, or its
\* two lists are the lists of its GraphRAG instance.
C21_SessionListsAreGraphLists ==
    \/ rag = NoRag /\ session = NoSession
    \/ /\ rag # NoRag
       /\ rag.entities = session.entities
       /\ rag.relationships = session.relationships

\* a run of the Generate handler in which extraction returned no entity
EmptyExtraction(r) ==
    r.op = "generate" /\ r.extracted # <<>> /\ r.extracted[1] = <<>>

\* C22: a run of the Generate handler in which extraction returns an empty
\* list of entities changes neither the entities, nor the relationships, nor
\* the graph of the session.
C22_EmptyExtractionKeepsSession ==
    [][EmptyExtraction(ret') => (session' = session /\ rag' = rag)]_vars

\* extraction returned relationships without entities to a session that has
\* a graph, and the graph and the lists are still there
C22_Witness ==
    /\ EmptyExtraction(ret)
    /\ ret.extracted[2] # <<>>
    /\ rag # NoRag
    /\ session.entities # <<>>
    /\ rag.entities = session.entities

\* ---------------------------------------------------------- the prompt: spec

MaxSlack == 3

PromptShapes == {"plain", "cited", "hyphenated", "double"}

\* words of several letters with one space between them
PlainUnit(i) ==
    IF i % 5 = 0 THEN " " ELSE IF i % 7 = 0 THEN "x" ELSE "w"

\* a text of n units (2 * n for the shape "double"): plain; with a citation
\* number and a page number at the end; with a word broken at a line break
\* where the head window ends; twice as long
PromptTextOf(n, shape) ==
    <<>> \o
    [i \in 1..(IF shape = "double" THEN 2 * n ELSE n) |->
        IF shape = "cited" /\ i = 10 THEN "[7]"
        ELSE IF shape = "cited" /\ i = n - 1 THEN NL
        ELSE IF shape = "cited" /\ i = n THEN "7"
        ELSE IF shape = "hyphenated" /\ i = TextWindow - 1 THEN "-"
        ELSE IF shape = "hyphenated" /\ i = TextWindow THEN NL
        ELSE PlainUnit(i)]

PromptTexts ==
    {PromptTextOf(n, shape) :
        n \in (TextBudget - MaxSlack)..(TextBudget + MaxSlack),
        shape \in PromptShapes}

PromptAdapterOutcomes ==
    {Ok(RenderDocument([entities |-> <<CompleteEntity>>,
                        relationships |-> <<CompleteRelationship>>])),
     Ok(RenderDocument([entities |-> <<>>, relationships |-> <<>>])),
     Ok(<<"no", " ", "JSON">>),
     Exc("quota"), Exc("blocked")}

InitPrompt ==
    /\ apiKey = TRUE
    /\ args \in [text : PromptTexts]
    /\ rag = NoRag
    /\ ret = NoRet
    /\ session = NoSession

\* generator.extract_entities_and_relationships(text) for a long text
ExtractLong ==
    /\ Idle
    /\ \E adapter \in PromptAdapterOutcomes :
          ret' = Returned(extract_entities_and_relationships(args.text, adapter),
                          <<args.text, adapter>>)
    /\ UNCHANGED <<apiKey, args, rag, session>>

NextPrompt == ExtractLong \/ Continue

SpecPrompt == InitPrompt /\ [][NextPrompt]_vars

\* -------------------------------------------------------- the prompt: claims

\* the prompt text embeds the preprocessed text p as the claim says
EmbedsTruncated(prompt, p) ==
    IF Len(p) <= TextBudget THEN prompt = p
    ELSE /\ Len(prompt) = TextWindow + 5 + TextWindow
         /\ SubSeq(prompt, 1, TextWindow) = SubSeq(p, 1, TextWindow)
         /\ SubSeq(prompt, TextWindow + 1, TextWindow + 5)
               = <<NL, NL, TruncationMarker, NL, NL>>
         /\ SubSeq(prompt, TextWindow + 6, TextWindow + 5 + TextWindow)
               = SubSeq(p, Len(p) - TextWindow + 1, Len(p))
         /\ TextWindow < Len(p) - TextWindow + 1

\* C19: the prompt embeds a preprocessed text of at most TextBudget
\* characters unchanged; of a longer one it embeds the first TextWindow
\* characters, the truncation marker between blank lines, and the last
\* TextWindow characters, and the two windows do not overlap.
C19_Truncation ==
    ret.op = "extract" =>
        EmbedsTruncated(ret.prompt, preprocess_academic_text(ret.call[1]))

\* a text whose preprocessed form is one character over the budget: the
\* character after the head window is left out
C19_Witness ==
    /\ ret.op = "extract"
    /\ Len(ret.call[1]) = TextBudget + MaxSlack
    /\ Len(ret.prompt) = TextWindow + 5 + TextWindow
    /\ ret.prompt[TextWindow + 3] = TruncationMarker
    /\ "-" \in Range(ret.call[1])

====
